---- MODULE Spec2Model ----
(***************************************************************************)
(* Model of the tick worker (app/worker/worker.py): the module-level       *)
(* supervisor, the Polygon WebSocket callbacks, the simulator and          *)
(* publish_tick, running against a Redis store shared by the worker        *)
(* instances, and of the market tape of the dashboard (app/app_docker.py)  *)
(* that reads the store.                                                   *)
(*                                                                         *)
(* Conventions.  Python strings are sequences of one-character strings.    *)
(* JSON / Python values are tagged records: Null, Num(n) (an int),         *)
(* Flt(m) (a float, held as fixed-point thousandths), Str(s), Obj(f),      *)
(* List(items).  A call that may raise returns [ok, exc, x].               *)
(***************************************************************************)
EXTENDS Integers, Sequences, FiniteSets, TLC

(* ---------------------------- bounds ----------------------------------- *)
MaxWorkers == 2      \* worker instances sharing the store
MaxClock == 3        \* payloads built (datetime.utcnow() readings) per run
MaxCap == 1          \* largest TICK_LIST_LEN tried
MaxBatch == 2        \* longest inbound array
MaxOutages == 1      \* times the store becomes unreachable
MaxSeed == 1         \* seeds of the random module: 0..MaxSeed

(* ------------------------ program constants ---------------------------- *)
Milli == 1000        \* fixed-point unit standing for Python floats
RngMod == 16         \* period of the modelled random generator

(* ---------------------------- strings ---------------------------------- *)
LowerCase == <<"a", "b", "c", "d", "e", "f", "g", "h", "i", "j", "k", "l", "m",
               "n", "o", "p", "q", "r", "s", "t", "u", "v", "w", "x", "y", "z">>
UpperCase == <<"A", "B", "C", "D", "E", "F", "G", "H", "I", "J", "K", "L", "M",
               "N", "O", "P", "Q", "R", "S", "T", "U", "V", "W", "X", "Y", "Z">>

Upper(c) ==
  IF \E j \in 1..26 : LowerCase[j] = c
    THEN UpperCase[CHOOSE j \in 1..26 : LowerCase[j] = c]
    ELSE c

RECURSIVE StrUpper(_)
StrUpper(s) == IF s = <<>> THEN <<>> ELSE <<Upper(Head(s))>> \o StrUpper(Tail(s))

IsSpace(c) == c = " "

RECURSIVE LStrip(_)
LStrip(s) == IF s # <<>> /\ IsSpace(Head(s)) THEN LStrip(Tail(s)) ELSE s

RECURSIVE RStrip(_)
RStrip(s) ==
  IF s # <<>> /\ IsSpace(s[Len(s)]) THEN RStrip(SubSeq(s, 1, Len(s) - 1)) ELSE s

Strip(s) == RStrip(LStrip(s))

\* str.split(","): always at least one field, empty fields kept
RECURSIVE SplitFrom(_, _, _)
SplitFrom(s, i, cur) ==
  IF i > Len(s) THEN <<cur>>
  ELSE IF s[i] = "," THEN <<cur>> \o SplitFrom(s, i + 1, <<>>)
  ELSE SplitFrom(s, i + 1, Append(cur, s[i]))

Split(s) == SplitFrom(s, 1, <<>>)

DigitVal(c) ==
  CASE c = "0" -> 0 [] c = "1" -> 1 [] c = "2" -> 2 [] c = "3" -> 3
    [] c = "4" -> 4 [] c = "5" -> 5 [] c = "6" -> 6 [] c = "7" -> 7
    [] c = "8" -> 8 [] c = "9" -> 9 [] OTHER -> -1

RECURSIVE DigitsVal(_, _)
DigitsVal(s, acc) ==
  IF s = <<>> THEN acc ELSE DigitsVal(Tail(s), 10 * acc + DigitVal(Head(s)))

AllDigits(s) == s # <<>> /\ \A i \in 1..Len(s) : DigitVal(s[i]) >= 0

\* the integer literal grammar shared by int(str) and float(str):
\* surrounding whitespace, an optional sign, one or more digits
ParseInt(s) ==
  LET t == Strip(s)
      neg == t # <<>> /\ Head(t) = "-"
      signed == t # <<>> /\ Head(t) \in {"-", "+"}
      d == IF signed THEN Tail(t) ELSE t
  IN IF AllDigits(d)
       THEN [ok |-> TRUE, exc |-> "", x |-> IF neg THEN -DigitsVal(d, 0) ELSE DigitsVal(d, 0)]
       ELSE [ok |-> FALSE, exc |-> "ValueError", x |-> 0]

(* ------------------------- Python / JSON values ------------------------ *)
Null == [k |-> "null"]
Num(n) == [k |-> "num", n |-> n]
Flt(m) == [k |-> "float", m |-> m]
Str(s) == [k |-> "str", s |-> s]
Obj(f) == [k |-> "obj", f |-> f]
List(items) == [k |-> "list", items |-> items]

\* truth value of a Python object
Truthy(v) ==
  CASE v.k = "null" -> FALSE
    [] v.k = "num" -> v.n # 0
    [] v.k = "float" -> v.m # 0
    [] v.k = "str" -> v.s # <<>>
    [] v.k = "obj" -> DOMAIN v.f # {}
    [] v.k = "list" -> v.items # <<>>

\* a or b
Or(a, b) == IF Truthy(a) THEN a ELSE b

\* dict.get(key): None when the key is absent
Get(o, key) == IF key \in DOMAIN o.f THEN o.f[key] ELSE Null

\* truncation toward zero of thousandths
Trunc(m) == IF m >= 0 THEN m \div Milli ELSE -((-m) \div Milli)

\* float(v), in thousandths
PyFloat(v) ==
  CASE v.k = "num" -> [ok |-> TRUE, exc |-> "", x |-> v.n * Milli]
    [] v.k = "float" -> [ok |-> TRUE, exc |-> "", x |-> v.m]
    [] v.k = "str" -> LET r == ParseInt(v.s) IN [r EXCEPT !.x = r.x * Milli]
    [] OTHER -> [ok |-> FALSE, exc |-> "TypeError", x |-> 0]

\* int(v)
PyInt(v) ==
  CASE v.k = "num" -> [ok |-> TRUE, exc |-> "", x |-> v.n]
    [] v.k = "float" -> [ok |-> TRUE, exc |-> "", x |-> Trunc(v.m)]
    [] v.k = "str" -> ParseInt(v.s)
    [] OTHER -> [ok |-> FALSE, exc |-> "TypeError", x |-> 0]

\* f"{v}" for a str or None
Format(v) == IF v.k = "str" THEN v.s ELSE <<"N", "o", "n", "e">>

\* json.dumps / json.loads: a text is either the rendering of a value or
\* something that is not JSON
Text(v) == [valid |-> TRUE, json |-> v]
NotJson == [valid |-> FALSE, json |-> Null]

JsonDumps(v) == Text(v)

JsonLoads(t) ==
  IF t.valid THEN [ok |-> TRUE, exc |-> "", x |-> t.json]
  ELSE [ok |-> FALSE, exc |-> "JSONDecodeError", x |-> Null]

(* ------------------------------ lists ---------------------------------- *)
Min(a, b) == IF a <= b THEN a ELSE b
Max(a, b) == IF a >= b THEN a ELSE b

RECURSIVE Reverse(_)
Reverse(s) == IF s = <<>> THEN <<>> ELSE Append(Reverse(Tail(s)), Head(s))

Take(s, n) == SubSeq(s, 1, Min(n, Len(s)))

(* --------------------------- the Redis store --------------------------- *)
\* f"latest:{sym}" and f"ticks:{sym}"
LatestKey(sym) == [prefix |-> "latest:", name |-> Format(sym)]
ListKey(sym) == [prefix |-> "ticks:", name |-> Format(sym)]

Put(st, key, val) == [x \in DOMAIN st \cup {key} |-> IF x = key THEN val ELSE st[x]]
Del(st, key) == [x \in DOMAIN st \ {key} |-> st[x]]

\* variant: SET key value NX, which leaves an existing key alone
RedisSetNX(st, key, val) ==
  IF key \in DOMAIN st THEN st ELSE Put(st, key, [t |-> "string", v |-> val])

\* SET key value
RedisSet(st, key, val) == Put(st, key, [t |-> "string", v |-> val])

ListAt(st, key) == IF key \in DOMAIN st THEN st[key].v ELSE <<>>

\* LPUSH key value
RedisLPush(st, key, val) == Put(st, key, [t |-> "list", v |-> <<val>> \o ListAt(st, key)])

\* LTRIM key start stop: negative indexes count from the tail, the range is
\* clamped to the list, and a list left empty is deleted
RedisLTrim(st, key, start, stop) ==
  LET l == ListAt(st, key)
      n == Len(l)
      a == Max(IF start < 0 THEN n + start ELSE start, 0)
      b == Min(IF stop < 0 THEN n + stop ELSE stop, n - 1)
      kept == IF a > b THEN <<>> ELSE SubSeq(l, a + 1, b + 1)
  IN IF key \notin DOMAIN st THEN st
     ELSE IF kept = <<>> THEN Del(st, key)
     ELSE Put(st, key, [t |-> "list", v |-> kept])

(* -------------------------- the environment ---------------------------- *)
\* os.getenv(name, default)
GetEnv(val, default) == IF val.k = "null" THEN default ELSE val

DefaultWatchlist ==
  <<"A", "A", "P", "L", ",", "M", "S", "F", "T", ",", "T", "S", "L", "A", ",",
    "R", "E", "L", "I", "A", "N", "C", "E", ".", "N", "S">>

DefaultTickListLen == <<"2", "0", "0">>

RECURSIVE StripUpperAll(_)
StripUpperAll(fields) ==
  IF fields = <<>> THEN <<>>
  ELSE <<StrUpper(Strip(Head(fields)))>> \o StripUpperAll(Tail(fields))

\* [s.strip().upper() for s in os.getenv("WATCHLIST", ...).split(",")]
ParseWatchlist(env) == StripUpperAll(Split(GetEnv(env, Str(DefaultWatchlist)).s))

\* int(os.getenv("TICK_LIST_LEN", "200"))
ParseTickListLen(env) == PyInt(GetEnv(env, Str(DefaultTickListLen)))

\* the digits of a small natural number, as the environment would hold it
Digit(n) == <<"0", "1", "2", "3", "4", "5", "6", "7", "8", "9">>[n + 1]

EnvPolyKeys == {Null, Str(<<>>), Str(<<"k">>)}
EnvWatchlists == {Null, Str(<<" ", "a", "a", "p", "l">>), Str(<<>>),
                  Str(<<"a", ",", ",", "b">>)}
EnvTickListLens == {Null} \cup {Str(<<Digit(c)>>) : c \in 0..MaxCap}
Seeds == 0..MaxSeed

(* ------------------------- the random module --------------------------- *)
\* one step of the generator; random.random() is NextRng(s) / RngMod
NextRng(s) == (5 * s + 3) % RngMod

\* 100.0 + random.random()*100
InitialPrice(r) == 100 * Milli + (r * 100 * Milli) \div RngMod

\* random.uniform(-0.01, 0.01), in thousandths
ChangePct(r) == (20 * r) \div RngMod - 10

\* random.randint(1, 100)
RandSize(r) == 1 + (r * 100) \div RngMod

\* round(x, 2)
Round2(m) == ((m + 5) \div 10) * 10

\* for s in WATCHLIST: base[s] = 100.0 + random.random()*100
RECURSIVE InitBase(_, _, _)
InitBase(wl, s, b) ==
  IF wl = <<>> THEN [rng |-> s, base |-> b]
  ELSE InitBase(Tail(wl), NextRng(s), Put(b, Head(wl), InitialPrice(NextRng(s))))

(* --------------------------- inbound messages -------------------------- *)
TradeEv == Str(<<"T">>)
AAPL == Str(<<"A", "A", "P", "L">>)

Good == Obj([ev |-> TradeEv, sym |-> AAPL, p |-> Num(150), s |-> Num(3)])
BadPrice == Obj([ev |-> TradeEv, sym |-> AAPL, p |-> Str(<<"x">>), s |-> Num(3)])
NoPrice == Obj([ev |-> TradeEv, sym |-> AAPL, s |-> Num(3)])
Odd == Obj([ev |-> TradeEv, ticker |-> Str(<<"z", "z">>), price |-> Num(-5), size |-> Num(-3)])
NoSym == Obj([ev |-> TradeEv, p |-> Str(<<"0">>)])
Quote == Obj([ev |-> Str(<<"Q">>), sym |-> AAPL, p |-> Num(150)])
NotObj == Num(7)

Elements == {Good, BadPrice, NoPrice, Odd, NoSym, Quote, NotObj}
Batches == UNION {[1..n -> Elements] : n \in 0..MaxBatch}
StatusMsg == Obj([ev |-> Str(<<"s", "t", "a", "t", "u", "s">>)])
Messages == {NotJson, Text(StatusMsg), Text(Good)} \cup {Text(List(b)) : b \in Batches}

(* ------------------------------- state --------------------------------- *)
VARIABLES
  procs,          \* the worker processes started against the store
  POLY_KEY,       \* per process: os.getenv("POLYGON_API_KEY")
  WATCHLIST,      \* the parsed watchlist
  TICK_LIST_LEN,  \* the parsed capacity
  store,          \* Redis: key -> [t, v]
  storeUp,        \* whether the store answers
  outages,        \* times the store has gone away
  clock,          \* datetime.utcnow()
  proc,           \* per process: control state and locals
  pushed,         \* history: per list, the payloads in LPUSH order
  done,           \* history: per list, the payloads of the calls that returned
  aborted,        \* history: lists a publish_tick call raised on
  app             \* the dashboard (app_docker.py): control state and locals

vars == <<procs, POLY_KEY, WATCHLIST, TICK_LIST_LEN, store, storeUp, outages,
          clock, proc, pushed, done, aborted, app>>
config == <<procs, POLY_KEY, WATCHLIST, TICK_LIST_LEN>>
history == <<pushed, done, aborted>>

NoCall == Null

InitProc ==
  [pc |-> "start", running |-> "none", session |-> "None", sent |-> <<>>,
   seed |-> 0, rng |-> 0, base |-> <<>>, si |-> 0, data |-> <<>>, idx |-> 0,
   call |-> NoCall, published |-> 0, hadErr |-> FALSE, failure |-> "", err |-> ""]

\* os.getenv("WATCHLIST", "AAPL,MSFT,TSLA,RELIANCE.NS").split(",") of the dashboard
AppWatchlist(env) == Split(GetEnv(env, Str(DefaultWatchlist)).s)

\* the dashboard before its script runs; it reads the environment the
\* worker reads
InitApp(env) ==
  [pc |-> "off", WATCHLIST |-> AppWatchlist(env), redis_ok |-> FALSE, i |-> 0,
   rows |-> <<>>]

\* the module-level configuration (lines 20-27) of every process, the
\* dashboard not started, and an empty store
Startup(keys) ==
  /\ POLY_KEY \in [procs -> keys]
  /\ \E e \in EnvWatchlists : WATCHLIST = ParseWatchlist(e) /\ app = InitApp(e)
  /\ \E e \in EnvTickListLens : TICK_LIST_LEN = ParseTickListLen(e).x
  /\ store = <<>>
  /\ storeUp = TRUE
  /\ outages = 0
  /\ clock = 0
  /\ proc = [w \in procs |-> InitProc]
  /\ pushed = <<>>
  /\ done = <<>>
  /\ aborted = {}

\* one worker process, with any configuration
Init == procs = {1} /\ Startup(EnvPolyKeys)

\* several worker processes against one store, none with a provider key
InitPair == (\E n \in 2..MaxWorkers : procs = 1..n) /\ Startup({Null})

(* --------------------------- publish_tick ------------------------------ *)
\* datetime.utcnow().isoformat() + "Z"
Timestamp(now) == Str(<<now, "Z">>)

\* the payload dict of publish_tick; float() and int() may raise
BuildPayload(sym, price, size, ev_type, now) ==
  LET p == PyFloat(price)
      n == PyInt(size)
  IN IF ~p.ok THEN [ok |-> FALSE, exc |-> p.exc, x |-> Null]
     ELSE IF ~n.ok THEN [ok |-> FALSE, exc |-> n.exc, x |-> Null]
     ELSE [ok |-> TRUE, exc |-> "",
           x |-> Obj([symbol |-> sym, price |-> Flt(p.x), size |-> Num(n.x),
                      ts |-> Timestamp(now), type |-> ev_type])]

SymbolOf(call) == call.f.symbol
PushedAt(name) == IF name \in DOMAIN pushed THEN pushed[name] ELSE <<>>
DoneAt(name) == IF name \in DOMAIN done THEN done[name] ELSE <<>>

\* variant: the trim keeps one entry too many
TrimStopOffByOne(cap) == cap

\* the stop index of r.ltrim(listkey, 0, TICK_LIST_LEN-1)
TrimStop(cap) == cap - 1

(* ------------------------ control flow pieces -------------------------- *)
Exceptions == {"JSONDecodeError", "AttributeError", "TypeError", "ValueError",
               "ConnectionError"}

\* variant: if POLY_KEY is not None:
KeyIsNotNone(key) == key # Null

\* if POLY_KEY:
SupervisorChoosesLive(key) == Truthy(key)

\* simulate_ticks() is entered
StartSim(p) == [p EXCEPT !.pc = "sim_init", !.running = "sim"]

\* variant: the handler reports the failure and does not start the simulator
ReportOnly(p) ==
  [p EXCEPT !.pc = "exited", !.running = "none",
            !.session = IF p.session = "None" THEN "None" ELSE "Failed",
            !.data = <<>>, !.idx = 0, !.call = NoCall]

\* except Exception as e: ... simulate_ticks()
OnLiveException(p) ==
  StartSim([p EXCEPT !.session = IF p.session = "None" THEN "None" ELSE "Failed",
                     !.data = <<>>, !.idx = 0, !.call = NoCall])

\* ws.run_forever() returns: the try block and the module end
OnRunForeverReturn(p) == [p EXCEPT !.pc = "exited", !.running = "none"]

\* variant: except ValueError as e:
CatchesValueError(exc) == exc \in {"ValueError", "JSONDecodeError"}

\* except Exception as e: print("msg parse err", e)
OnMessageCatches(exc) == exc \in Exceptions

\* an exception raised inside on_message
HandlerRaise(p, exc) ==
  IF OnMessageCatches(exc)
    THEN [p EXCEPT !.pc = "stream", !.data = <<>>, !.idx = 0, !.call = NoCall,
                   !.hadErr = TRUE]
    ELSE OnLiveException([p EXCEPT !.failure = "handler"])

\* an exception raised inside simulate_ticks: nothing catches it, neither in
\* the else branch nor inside the except handler that called it
SimRaise(p, exc) ==
  [p EXCEPT !.pc = "crashed", !.running = "none", !.call = NoCall, !.err = exc]

Raise(p, exc) == IF p.running = "live" THEN HandlerRaise(p, exc) ELSE SimRaise(p, exc)

\* the for loop of on_message moves to the next element, or on_message returns
NextElement(p) ==
  IF p.idx < Len(p.data) THEN [p EXCEPT !.pc = "element", !.idx = p.idx + 1]
  ELSE [p EXCEPT !.pc = "stream", !.data = <<>>, !.idx = 0]

\* variant: the round stops one symbol short
NextSymbolSkipsLast(p) ==
  IF p.si < Len(WATCHLIST) - 1 THEN [p EXCEPT !.pc = "sim_round", !.si = p.si + 1]
  ELSE [p EXCEPT !.pc = "sim_sleep"]

\* the for loop of simulate_ticks moves to the next symbol, or to the sleep
NextSymbol(p) ==
  IF p.si < Len(WATCHLIST) THEN [p EXCEPT !.pc = "sim_round", !.si = p.si + 1]
  ELSE [p EXCEPT !.pc = "sim_sleep"]

\* publish_tick returns to its caller
Return(p) ==
  IF p.running = "live"
    THEN NextElement([p EXCEPT !.call = NoCall, !.published = p.published + 1])
    ELSE NextSymbol([p EXCEPT !.call = NoCall])

\* variant: after the sleep a worker that once had a session connects again
ReconnectAfterSleep(p) ==
  IF p.session # "None" THEN [p EXCEPT !.pc = "setup"]
  ELSE [p EXCEPT !.pc = "sim_round", !.si = 1]

\* time.sleep(1); while True:
AfterSleep(p) == [p EXCEPT !.pc = "sim_round", !.si = 1]

(* ------------------------------ actions -------------------------------- *)
\* r.set(key, json.dumps(payload))
PubSet(w) ==
  /\ proc[w].pc = "set"
  /\ LET p == proc[w] IN
     IF storeUp
       THEN /\ store' = RedisSet(store, LatestKey(SymbolOf(p.call)), JsonDumps(p.call))
            /\ proc' = [proc EXCEPT ![w].pc = "lpush"]
            /\ UNCHANGED aborted
       ELSE /\ proc' = [proc EXCEPT ![w] = Raise(p, "ConnectionError")]
            /\ aborted' = aborted \cup {Format(SymbolOf(p.call))}
            /\ UNCHANGED store
  /\ UNCHANGED <<config, app, storeUp, outages, clock, pushed, done>>

\* r.lpush(listkey, json.dumps(payload))
PubLPush(w) ==
  /\ proc[w].pc = "lpush"
  /\ LET p == proc[w]
         name == Format(SymbolOf(p.call))
     IN
     IF storeUp
       THEN /\ store' = RedisLPush(store, ListKey(SymbolOf(p.call)), JsonDumps(p.call))
            /\ proc' = [proc EXCEPT ![w].pc = "ltrim"]
            /\ pushed' = Put(pushed, name, Append(PushedAt(name), p.call))
            /\ UNCHANGED aborted
       ELSE /\ proc' = [proc EXCEPT ![w] = Raise(p, "ConnectionError")]
            /\ aborted' = aborted \cup {name}
            /\ UNCHANGED <<store, pushed>>
  /\ UNCHANGED <<config, app, storeUp, outages, clock, done>>

\* r.ltrim(listkey, 0, TICK_LIST_LEN-1), then publish_tick returns
PubLTrim(w) ==
  /\ proc[w].pc = "ltrim"
  /\ LET p == proc[w]
         name == Format(SymbolOf(p.call))
     IN
     IF storeUp
       THEN /\ store' = RedisLTrim(store, ListKey(SymbolOf(p.call)), 0, TrimStop(TICK_LIST_LEN))
            /\ proc' = [proc EXCEPT ![w] = Return(p)]
            /\ done' = Put(done, name, Append(DoneAt(name), p.call))
            /\ UNCHANGED aborted
       ELSE /\ proc' = [proc EXCEPT ![w] = Raise(p, "ConnectionError")]
            /\ aborted' = aborted \cup {name}
            /\ UNCHANGED <<store, done>>
  /\ UNCHANGED <<config, app, storeUp, outages, clock, pushed>>

\* the module-level if POLY_KEY: ... else: simulate_ticks()
Supervisor(w) ==
  /\ proc[w].pc = "start"
  /\ proc' = [proc EXCEPT ![w] = IF SupervisorChoosesLive(POLY_KEY[w])
                                   THEN [@ EXCEPT !.pc = "setup"]
                                   ELSE StartSim(@)]
  /\ UNCHANGED <<config, app, store, storeUp, outages, clock, history>>

\* import websocket; the callbacks are defined; WebSocketApp(...) is built
LiveSetup(w) ==
  /\ proc[w].pc = "setup"
  /\ \E outcome \in {"ok", "raise"} :
       proc' = [proc EXCEPT ![w] =
                  IF outcome = "ok"
                    THEN [@ EXCEPT !.pc = "connect", !.running = "live",
                                   !.session = "Connecting"]
                    ELSE OnLiveException([@ EXCEPT !.failure = "setup"])]
  /\ UNCHANGED <<config, app, store, storeUp, outages, clock, history>>

\* variant: the subscriptions are sent before the credential
OnOpenSubscribesFirst(w, p) ==
  [p EXCEPT !.pc = "stream", !.session = "Streaming",
            !.sent = [j \in 1..Len(WATCHLIST) |->
                        [action |-> "subscribe", params |-> <<"T", ".">> \o WATCHLIST[j]]] \o
                     <<[action |-> "auth", params |-> POLY_KEY[w].s]>>]

\* on_open: the auth message, then one subscribe per watchlist symbol
OnOpen(w, p) ==
  [p EXCEPT !.pc = "stream", !.session = "Streaming",
            !.sent = <<[action |-> "auth", params |-> POLY_KEY[w].s]>> \o
                     [j \in 1..Len(WATCHLIST) |->
                        [action |-> "subscribe", params |-> <<"T", ".">> \o WATCHLIST[j]]]]

\* ws.run_forever() connects: the connection opens, or it fails and the run
\* loop either reports on_error and returns, or raises
LiveConnect(w) ==
  /\ proc[w].pc = "connect"
  /\ \E outcome \in {"open", "refused", "raise"} :
       proc' = [proc EXCEPT ![w] =
                  CASE outcome = "open" -> OnOpen(w, @)
                    [] outcome = "refused" -> OnRunForeverReturn([@ EXCEPT !.session = "Failed"])
                    [] outcome = "raise" -> OnLiveException([@ EXCEPT !.failure = "connect"])]
  /\ UNCHANGED <<config, app, store, storeUp, outages, clock, history>>

\* the streaming session ends: a remote close (on_close) or a transport error
\* (on_error) after which run_forever returns, or the run loop raises
SessionEnd(w) ==
  /\ proc[w].pc = "stream"
  /\ \E how \in {"close", "error", "raise"} :
       proc' = [proc EXCEPT ![w] =
                  CASE how = "close" -> OnRunForeverReturn([@ EXCEPT !.session = "Closed"])
                    [] how = "error" -> OnRunForeverReturn([@ EXCEPT !.session = "Failed"])
                    [] how = "raise" -> OnLiveException([@ EXCEPT !.failure = "run"])]
  /\ UNCHANGED <<config, app, store, storeUp, outages, clock, history>>

\* on_message is called with the message: json.loads, then the isinstance tests
ReceiveMsg(w, message) ==
  /\ proc[w].pc = "stream"
  /\ LET p == [proc[w] EXCEPT !.published = 0]
         d == JsonLoads(message)
     IN proc' = [proc EXCEPT ![w] =
          IF ~d.ok THEN HandlerRaise(p, d.exc)
          ELSE IF d.x.k = "list" /\ d.x.items # <<>>
            THEN [p EXCEPT !.pc = "element", !.data = d.x.items, !.idx = 1]
          ELSE p]
  /\ UNCHANGED <<config, app, store, storeUp, outages, clock, history>>

\* the run loop delivers an inbound message
Receive(w) == \E message \in Messages : ReceiveMsg(w, message)

\* variant: quote events are handled like trades
IsTradeOrQuote(msg) == Get(msg, "ev") \in {TradeEv, Str(<<"Q">>)}

\* ev_type = msg.get("ev"); if ev_type == "T":
IsTrade(msg) == Get(msg, "ev") = TradeEv

\* one iteration of the for loop of on_message, up to the first store command
HandleElement(w) ==
  /\ proc[w].pc = "element"
  /\ LET p == proc[w]
         msg == p.data[p.idx]
     IN
     IF msg.k # "obj"
       THEN /\ proc' = [proc EXCEPT ![w] = HandlerRaise(p, "AttributeError")]
            /\ UNCHANGED clock
     ELSE IF ~IsTrade(msg)
       THEN /\ proc' = [proc EXCEPT ![w] = NextElement(p)]
            /\ UNCHANGED clock
     ELSE LET sym == Or(Get(msg, "sym"), Get(msg, "ticker"))
              price == Or(Get(msg, "p"), Get(msg, "price"))
              size == Or(Or(Get(msg, "s"), Get(msg, "size")), Num(1))
              b == BuildPayload(sym, price, size, TradeEv, clock)
          IN IF b.ok
               THEN /\ clock < MaxClock
                    /\ clock' = clock + 1
                    /\ proc' = [proc EXCEPT ![w] = [p EXCEPT !.pc = "set", !.call = b.x]]
               ELSE /\ proc' = [proc EXCEPT ![w] = HandlerRaise(p, b.exc)]
                    /\ UNCHANGED clock
  /\ UNCHANGED <<config, app, store, storeUp, outages, history>>

\* simulate_ticks: the base prices are drawn.  The random module seeded
\* itself when it was imported; the seed shows here, at its first use
SimInit(w) ==
  /\ proc[w].pc = "sim_init"
  /\ \E seed \in Seeds :
       LET r == InitBase(WATCHLIST, seed, <<>>)
       IN proc' = [proc EXCEPT ![w] =
                     [@ EXCEPT !.pc = "sim_round", !.si = 1, !.seed = seed,
                               !.rng = r.rng, !.base = r.base]]
  /\ UNCHANGED <<config, app, store, storeUp, outages, clock, history>>

\* one iteration of the for loop of simulate_ticks, up to the first store command
SimStep(w) ==
  /\ proc[w].pc = "sim_round"
  /\ clock < MaxClock
  /\ LET p == proc[w]
         s == WATCHLIST[p.si]
         last == p.base[s]
         r1 == NextRng(p.rng)
         new == (last * (Milli + ChangePct(r1))) \div Milli
         r2 == NextRng(r1)
         b == BuildPayload(Str(s), Flt(Round2(new)), Num(RandSize(r2)), TradeEv, clock)
         q == [p EXCEPT !.rng = r2, !.base = Put(p.base, s, new)]
     IN proc' = [proc EXCEPT ![w] =
                   IF b.ok THEN [q EXCEPT !.pc = "set", !.call = b.x]
                   ELSE SimRaise(q, b.exc)]
  /\ clock' = clock + 1
  /\ UNCHANGED <<config, app, store, storeUp, outages, history>>

\* time.sleep(1), then the next round
SimSleep(w) ==
  /\ proc[w].pc = "sim_sleep"
  /\ proc' = [proc EXCEPT ![w] = AfterSleep(@)]
  /\ UNCHANGED <<config, app, store, storeUp, outages, clock, history>>

\* the store becomes unreachable
StoreDown ==
  /\ storeUp
  /\ outages < MaxOutages
  /\ storeUp' = FALSE
  /\ outages' = outages + 1
  /\ UNCHANGED <<config, app, store, clock, proc, history>>

\* the store is reachable again
StoreBack ==
  /\ ~storeUp
  /\ storeUp' = TRUE
  /\ UNCHANGED <<config, app, store, outages, clock, proc, history>>

(* --------------------- the dashboard (app_docker.py) ------------------- *)
\* dict.get(key, default)
GetOr(o, key, default) == IF key \in DOMAIN o.f THEN o.f[key] ELSE default

\* get_latest_from_redis: r.get raises when the store is away or the key
\* holds a list, json.loads raises on a bad payload; every exception and a
\* missing key give None
GetLatestFromRedis(st, up, symbol) ==
  LET key == [prefix |-> "latest:", name |-> StrUpper(symbol)]
  IN IF ~up THEN Null
     ELSE IF key \notin DOMAIN st THEN Null
     ELSE IF st[key].t # "string" THEN Null
     ELSE LET d == JsonLoads(st[key].v) IN IF d.ok THEN d.x ELSE Null

Yfinance == Str(<<"y", "f", "i", "n", "a", "n", "c", "e">>)
Unknown == Str(<<"u", "n", "k", "n", "o", "w", "n">>)

\* fallback_yfinance: the last close when the history has one; None when it
\* is empty or the lookup raised
FallbackYfinance ==
  {Obj([source |-> Yfinance, last |-> Flt(101 * Milli), info |-> Obj([shortName |-> Null])]),
   Obj([source |-> Yfinance, last |-> Null, info |-> Obj([shortName |-> Null])]),
   Obj([source |-> Yfinance, last |-> Null, info |-> Obj(<<>>)])}

\* the row render_tape builds from an entry
TapeRow(sym, entry) ==
  [symbol |-> sym, last |-> Get(entry, "last"), source |-> GetOr(entry, "source", Unknown)]

\* the script starts: redis.from_url(...) and r.ping(), then render_tape()
AppStart ==
  /\ app.pc = "off"
  /\ app' = [app EXCEPT !.pc = "render", !.redis_ok = storeUp, !.i = 1, !.rows = <<>>]
  /\ UNCHANGED <<config, store, storeUp, outages, clock, proc, history>>

\* one iteration of the for loop of render_tape
RenderSymbol ==
  /\ app.pc = "render"
  /\ app.i <= Len(app.WATCHLIST)
  /\ LET sym == StrUpper(Strip(app.WATCHLIST[app.i]))
         entry == IF app.redis_ok THEN GetLatestFromRedis(store, storeUp, sym) ELSE Null
     IN \E fallback \in FallbackYfinance :
          app' = [app EXCEPT !.i = app.i + 1,
                             !.rows = Append(app.rows,
                                        TapeRow(sym, IF Truthy(entry) THEN entry ELSE fallback))]
  /\ UNCHANGED <<config, store, storeUp, outages, clock, proc, history>>

\* tape_container.table(df): the rows are shown
ShowTape ==
  /\ app.pc = "render"
  /\ app.i > Len(app.WATCHLIST)
  /\ app' = [app EXCEPT !.pc = "shown"]
  /\ UNCHANGED <<config, store, storeUp, outages, clock, proc, history>>

\* the live loop calls render_tape again, or an interaction reruns the script
Rerender ==
  /\ app.pc = "shown"
  /\ \E how \in {"loop", "rerun"} :
       app' = IF how = "loop" THEN [app EXCEPT !.pc = "render", !.i = 1, !.rows = <<>>]
              ELSE [app EXCEPT !.pc = "off", !.i = 0, !.rows = <<>>]
  /\ UNCHANGED <<config, store, storeUp, outages, clock, proc, history>>

Next ==
  \/ \E w \in procs : Supervisor(w)
  \/ \E w \in procs : LiveSetup(w)
  \/ \E w \in procs : LiveConnect(w)
  \/ \E w \in procs : SessionEnd(w)
  \/ \E w \in procs : Receive(w)
  \/ \E w \in procs : HandleElement(w)
  \/ \E w \in procs : SimInit(w)
  \/ \E w \in procs : SimStep(w)
  \/ \E w \in procs : SimSleep(w)
  \/ \E w \in procs : PubSet(w)
  \/ \E w \in procs : PubLPush(w)
  \/ \E w \in procs : PubLTrim(w)
  \/ StoreDown
  \/ StoreBack

NextPair ==
  \/ \E w \in procs : Supervisor(w)
  \/ \E w \in procs : SimInit(w)
  \/ \E w \in procs : SimStep(w)
  \/ \E w \in procs : SimSleep(w)
  \/ \E w \in procs : PubSet(w)
  \/ \E w \in procs : PubLPush(w)
  \/ \E w \in procs : PubLTrim(w)
  \/ StoreDown
  \/ StoreBack

\* one worker process
Spec == Init /\ [][Next]_vars

\* worker processes without a provider key sharing the store
SpecPair == InitPair /\ [][NextPair]_vars

\* one worker without a provider key, and the dashboard reading the store
InitTape == procs = {1} /\ Startup({Null})

NextTape ==
  \/ \E w \in procs : Supervisor(w)
  \/ \E w \in procs : SimInit(w)
  \/ \E w \in procs : SimStep(w)
  \/ \E w \in procs : SimSleep(w)
  \/ \E w \in procs : PubSet(w)
  \/ \E w \in procs : PubLPush(w)
  \/ \E w \in procs : PubLTrim(w)
  \/ StoreDown
  \/ StoreBack
  \/ AppStart
  \/ RenderSymbol
  \/ ShowTape
  \/ Rerender

SpecTape == InitTape /\ [][NextTape]_vars

(* ============================ properties =============================== *)
ListNames == DOMAIN pushed \cup DOMAIN done \cup {key.name : key \in DOMAIN store}

\* read_recent: the decoded entries of ticks:{name}, head first
TicksOf(name) ==
  LET l == ListAt(store, [prefix |-> "ticks:", name |-> name])
  IN [j \in 1..Len(l) |-> JsonLoads(l[j]).x]

\* a publish_tick call for the name is between its first store command and
\* its return
InFlight(name) ==
  \E w \in procs : proc[w].call # NoCall /\ Format(SymbolOf(proc[w].call)) = name

PubPcs == {"set", "lpush", "ltrim"}
SimPcs == {"sim_init", "sim_round", "sim_sleep"}
LivePcs == {"setup", "connect", "stream", "element"}

\* the step is a store command that the unreachable store refuses
StoreRefuses(w) == proc[w].pc \in PubPcs /\ ~storeUp

\* the step is on_message returning, normally or through its except clause
OnMessageReturns(w) == proc[w].data # <<>> /\ proc'[w].data = <<>>

(* C1: with one worker and a capacity C >= 1, once N publish_tick calls for
   a symbol have completed (none raised, none in progress) ticks:{SYMBOL}
   has length min(N, C) and holds the min(N, C) most recently published
   ticks, most recent first. *)
C1_WindowHoldsMostRecent ==
  (Cardinality(procs) = 1 /\ TICK_LIST_LEN >= 1) =>
    \A name \in ListNames :
      (~InFlight(name) /\ name \notin aborted) =>
        /\ Len(TicksOf(name)) = Min(Len(DoneAt(name)), TICK_LIST_LEN)
        /\ TicksOf(name) = Take(Reverse(DoneAt(name)), TICK_LIST_LEN)

\* C1 witness: more calls completed than the capacity holds, so a tick was evicted
C1_Evicted ==
  \E name \in DOMAIN done :
    /\ Cardinality(procs) = 1 /\ TICK_LIST_LEN >= 1
    /\ Len(done[name]) > TICK_LIST_LEN
    /\ ~InFlight(name) /\ name \notin aborted

(* C2: for a capacity C >= 1, in every state, between the store commands of
   a call and under interleaved workers included, ticks:{SYMBOL} is never
   longer than C, and once no publish is in progress the C most recent
   pushes are all in it. *)
C2_AtomicAppend ==
  TICK_LIST_LEN >= 1 =>
    \A name \in ListNames :
      /\ Len(TicksOf(name)) <= TICK_LIST_LEN
      /\ ~InFlight(name) =>
           Take(TicksOf(name), TICK_LIST_LEN) = Take(Reverse(PushedAt(name)), TICK_LIST_LEN)

MixedBatches ==
  {<<Good, BadPrice>>, <<BadPrice, Good>>, <<Good, NoPrice>>, <<NoPrice, Good>>}

(* C3: an inbound array holding one well-formed trade and one trade with a
   non-numeric or missing price, in either order, gets exactly one tick
   published (the store answering). *)
C3_MixedBatchPublishesOne ==
  [][\A w \in procs :
       (proc[w].data \in MixedBatches /\ OnMessageReturns(w) /\ ~StoreRefuses(w))
         => proc'[w].published = 1]_vars

(* C4: store writes failing during the simulated feed never terminate the
   worker process. *)
C4_SimulatorSurvivesOutage == \A w \in procs : proc[w].pc # "crashed"

(* C5: with a provider key, once the live session has ended by a transport
   error or a remote close, the simulator is running: the process is never
   left with no feed. *)
C5_FallbackAfterSessionEnd ==
  \A w \in procs :
    proc[w].session \in {"Closed", "Failed"} =>
      proc[w].running = "sim" \/ proc[w].pc = "crashed"

(* C6: with a provider key, once starting or running the live client has
   raised, the simulator is what runs, until the process ends. *)
C6_ExceptionFallsBack ==
  \A w \in procs :
    proc[w].failure # "" =>
      \/ proc[w].running = "sim" /\ proc[w].pc \in SimPcs \cup PubPcs
      \/ proc[w].pc = "crashed"

\* C6 witness: the run loop raised and the simulator has published a round
C6_SimulatingAfterRaise ==
  \E w \in procs :
    proc[w].failure = "run" /\ proc[w].running = "sim" /\ proc[w].pc = "sim_sleep"

(* C7: with POLYGON_API_KEY unset or empty, the supervisor goes straight to
   the simulator: no session is ever opened and no auth or subscribe
   message is ever sent. *)
C7_NoKeyNoLive ==
  \A w \in procs :
    ~Truthy(POLY_KEY[w]) =>
      /\ proc[w].session = "None"
      /\ proc[w].sent = <<>>
      /\ proc[w].pc \notin LivePcs \cup {"exited"}
      /\ proc[w].pc # "start" => proc[w].running = "sim" \/ proc[w].pc = "crashed"

\* C7 witness: an empty key, and the simulator has published a round
C7_EmptyKeySimulates ==
  \E w \in procs : POLY_KEY[w] = Str(<<>>) /\ proc[w].pc = "sim_sleep"

(* C8: the simulator never runs beside an open or connecting session, and
   once the simulator has started no live step is taken again: the session
   and the messages sent stay as they were. *)
C8_OneFeedOneWay ==
  [][\A w \in procs :
       /\ proc'[w].running = "sim" => proc'[w].session \notin {"Connecting", "Streaming"}
       /\ proc[w].running = "sim" =>
            /\ proc'[w].running \in {"sim", "none"}
            /\ proc'[w].pc \notin LivePcs
            /\ proc'[w].sent = proc[w].sent
            /\ proc'[w].session = proc[w].session]_vars

\* C8 witness: a worker that had subscribed is simulating after its session failed
C8_SimulatingAfterSession ==
  \E w \in procs :
    /\ proc[w].sent # <<>> /\ proc[w].session = "Failed"
    /\ proc[w].running = "sim" /\ proc[w].call # NoCall

(* C9: every tick the live path writes has an upper-case, non-empty symbol,
   a positive price and a positive size. *)
C9_LiveTicksWellFormed ==
  \A w \in procs :
    (proc[w].running = "live" /\ proc[w].pc \in {"lpush", "ltrim"}) =>
      LET f == proc[w].call.f IN
        /\ f.symbol.k = "str"
        /\ f.symbol.s # <<>>
        /\ StrUpper(f.symbol.s) = f.symbol.s
        /\ f.price.m > 0
        /\ f.size.n >= 1

AllGood(d) == d # <<>> /\ \A j \in 1..Len(d) : d[j] = Good

(* C10: no exception leaves on_message, whatever the message: while a
   message is handled the session stays Streaming, and a message of
   well-formed trades has every one of them published (the store
   answering), also after malformed messages. *)
C10_OnMessageNeverRaises ==
  /\ [](\A w \in procs : proc[w].failure # "handler")
  /\ [][\A w \in procs :
          /\ (proc[w].running = "live" /\ proc[w].pc \in {"element"} \cup PubPcs)
               => proc'[w].running = "live" /\ proc'[w].session = "Streaming"
          /\ (AllGood(proc[w].data) /\ OnMessageReturns(w) /\ ~StoreRefuses(w))
               => proc'[w].published = Len(proc[w].data)]_vars

\* C10 witness: after a message that raised, a later batch was published whole
C10_PublishedAfterMalformed ==
  \E w \in procs :
    /\ proc[w].hadErr /\ proc[w].pc = "stream" /\ proc[w].session = "Streaming"
    /\ proc[w].published = 2

\* read_latest: the decoded value of latest:{name}, None when absent
LatestOf(name) ==
  LET key == [prefix |-> "latest:", name |-> name]
  IN IF key \in DOMAIN store THEN JsonLoads(store[key].v).x ELSE Null

\* two payloads carry the same symbol, price and size
SameTick(a, b) ==
  a.f.symbol = b.f.symbol /\ a.f.price = b.f.price /\ a.f.size = b.f.size

\* the last two completed publish_tick calls for the name carried the same
\* tick, and nothing else touched the name since
PublishedTwice(name) ==
  /\ Cardinality(procs) = 1
  /\ ~InFlight(name) /\ name \notin aborted
  /\ Len(DoneAt(name)) >= 2
  /\ SameTick(DoneAt(name)[Len(DoneAt(name)) - 1], DoneAt(name)[Len(DoneAt(name))])

(* C11, as stated: after the same tick (symbol, price, size) was published
   twice in a row, latest:{SYMBOL} reads the value it read after the first
   publish. *)
C11_RepublishKeepsValue ==
  \A name \in DOMAIN done :
    PublishedTwice(name) => LatestOf(name) = DoneAt(name)[Len(DoneAt(name)) - 1]

(* C11, amended: after the same tick was published twice in a row,
   latest:{SYMBOL} reads the payload of the second call, which has the
   symbol, price, size and type read after the first and its own ts. *)
C11_RepublishKeepsTick ==
  \A name \in DOMAIN done :
    PublishedTwice(name) =>
      LET first == DoneAt(name)[Len(DoneAt(name)) - 1]
          second == DoneAt(name)[Len(DoneAt(name))]
      IN /\ LatestOf(name) = second
         /\ SameTick(LatestOf(name), first)
         /\ LatestOf(name).f.type = first.f.type

\* C11 witness: the same tick was published twice in a row
C11_SameTickTwice == \E name \in DOMAIN done : PublishedTwice(name)

\* the worker has no provider key and the store has always answered
SimulatedOnly(w) == ~Truthy(POLY_KEY[w]) /\ outages = 0

(* C12: with no provider key and a store that answers, the simulator is
   what runs and it does not stop; when it reaches its first sleep, and at
   every sleep after, latest:{SYMBOL} is present for every watchlist
   symbol; and a latest:{SYMBOL} key, once written, is never removed. *)
C12_FirstRoundPublishesAll ==
  /\ [](\A w \in procs :
         SimulatedOnly(w) =>
           /\ proc[w].pc \in {"start"} \cup SimPcs \cup PubPcs
           /\ proc[w].pc = "sim_sleep" =>
                \A j \in 1..Len(WATCHLIST) : LatestOf(WATCHLIST[j]) # Null)
  /\ [][\A key \in DOMAIN store :
          key.prefix = "latest:" => key \in DOMAIN store']_vars

\* C12 witness: a simulator with several symbols is at its first sleep
C12_RoundOfThreeDone ==
  \E w \in procs :
    /\ SimulatedOnly(w) /\ proc[w].pc = "sim_sleep"
    /\ Len(WATCHLIST) = 3 /\ Cardinality(DOMAIN store) >= 3

\* the configured watchlist holds an empty symbol: WATCHLIST was "" or had
\* an empty field
InvalidWatchlist == \E j \in 1..Len(WATCHLIST) : WATCHLIST[j] = <<>>

(* C13: with an invalid watchlist (an empty string, or a list with an empty
   symbol) the worker fails at startup: no feed is started, nothing is sent
   and no store key is ever written. *)
C13_InvalidWatchlistIsFatal ==
  InvalidWatchlist =>
    /\ store = <<>>
    /\ \A w \in procs : proc[w].running = "none" /\ proc[w].sent = <<>>

\* the positions in the messages sent that subscribe to the trade channel
\* of the symbol
SubscribesTo(w, sym) ==
  {j \in 1..Len(proc[w].sent) :
     proc[w].sent[j] = [action |-> "subscribe", params |-> <<"T", ".">> \o sym]}

(* C14: once the connection has opened, the messages sent are the auth
   message carrying the key, first, and then one subscribe 'T.<SYMBOL>' per
   watchlist entry, in watchlist order, and nothing else. *)
C14_AuthThenSubscribes ==
  \A w \in procs :
    (proc[w].session = "Streaming" \/ proc[w].sent # <<>>) =>
      LET m == proc[w].sent IN
        /\ Len(m) = 1 + Len(WATCHLIST)
        /\ m[1] = [action |-> "auth", params |-> POLY_KEY[w].s]
        /\ \A j \in 2..Len(m) :
             /\ m[j].action = "subscribe"
             /\ m[j].params = <<"T", ".">> \o WATCHLIST[j - 1]
        /\ \A j \in 1..Len(WATCHLIST) : SubscribesTo(w, WATCHLIST[j]) # {}

\* C14 witness: a session is streaming for a watchlist of three entries
C14_SubscribedToThree ==
  \E w \in procs :
    proc[w].session = "Streaming" /\ Len(WATCHLIST) = 3 /\ Len(proc[w].sent) = 4

\* the element the for loop of on_message is at
Element(w) == proc[w].data[proc[w].idx]

\* the element is an object whose event type is not the trade type
NonTrade(msg) == msg.k = "obj" /\ Get(msg, "ev") # TradeEv

\* the inbound messages that are a single object
ObjectMessages == {m \in Messages : m.valid /\ m.json.k = "obj"}

(* C15: an inbound message that is a single object is discarded: handling
   it changes no store key and starts no publish_tick call.  An array
   element whose event type is not 'T' is skipped the same way: the loop
   moves on, no call is started, the store is as it was; an array of such
   elements returns with nothing published. *)
C15_NonTradesLeaveStore ==
  [][\A w \in procs :
       /\ \A m \in ObjectMessages :
            ReceiveMsg(w, m) =>
              /\ store' = store
              /\ proc'[w].pc = "stream" /\ proc'[w].call = NoCall
              /\ proc'[w].data = <<>> /\ proc'[w].published = 0
       /\ (proc[w].pc = "element" /\ NonTrade(Element(w))) =>
            /\ store' = store
            /\ proc'[w].pc \in {"element", "stream"}
            /\ proc'[w].call = NoCall
            /\ proc'[w].published = proc[w].published
       /\ (OnMessageReturns(w) /\ \A j \in 1..Len(proc[w].data) : NonTrade(proc[w].data[j]))
            => proc'[w].published = 0 /\ store' = store]_vars

\* C15 witness: with a tick in the store, the loop has skipped a quote and
\* is at the trade that follows it
C15_QuoteSkipped ==
  \E w \in procs :
    /\ proc[w].pc = "element" /\ proc[w].data = <<Quote, Good>> /\ proc[w].idx = 2
    /\ proc[w].published = 0 /\ store # <<>>

(* C17: the configured capacity bounds the window for every configured
   value, 0 included: with one worker, once the publish_tick calls for a
   symbol have returned, ticks:{SYMBOL} holds at most TICK_LIST_LEN
   entries, so none when TICK_LIST_LEN is 0. *)
C17_CapacityBoundsWindow ==
  \A name \in ListNames :
    (Cardinality(procs) = 1 /\ ~InFlight(name) /\ name \notin aborted) =>
      Len(TicksOf(name)) <= TICK_LIST_LEN

(* C18: for a capacity of at least 1, whenever no publish_tick call is in
   progress for a symbol that has been published (no call for it raised),
   latest:{SYMBOL} is the head of ticks:{SYMBOL}, with one worker and with
   two workers publishing to the same symbol. *)
C18_LatestIsHead ==
  TICK_LIST_LEN >= 1 =>
    \A name \in DOMAIN done :
      (~InFlight(name) /\ name \notin aborted) =>
        /\ TicksOf(name) # <<>>
        /\ LatestOf(name) = TicksOf(name)[1]

\* the symbols of the configured watchlist
WatchlistSymbols == {WATCHLIST[j] : j \in 1..Len(WATCHLIST)}

(* C19: every key in the store is latest:{S} or ticks:{S} for a symbol S of
   the configured watchlist, whatever the inbound trade messages carry. *)
C19_KeysWithinWatchlist ==
  \A key \in DOMAIN store :
    /\ key.prefix \in {"latest:", "ticks:"}
    /\ key.name \in WatchlistSymbols

\* the step adds a row to the tape
RowAdded == Len(app'.rows) = Len(app.rows) + 1

\* the entry of the symbol is in the store and the store answers
EntryPresent(sym) ==
  storeUp /\ [prefix |-> "latest:", name |-> sym] \in DOMAIN store

(* C20: a row render_tape builds for a symbol whose latest:{SYMBOL} entry
   is present (the store answering) shows that entry's price as 'last';
   the row comes from the fallback lookup, or has no 'last', only when the
   entry is absent or the store does not answer. *)
C20_TapeShowsPrice ==
  [][RowAdded =>
       LET row == app'.rows[Len(app'.rows)] IN
         /\ EntryPresent(row.symbol) => row.last = LatestOf(row.symbol).f.price
         /\ (row.source = Yfinance \/ row.last = Null) => ~EntryPresent(row.symbol)]_vars

====
